---- MODULE Spec2Model ----
(***************************************************************************)
(* Model of autode/molecule.py: construction of a Molecule or a            *)
(* SolvatedMolecule, conformer generation (_generate_conformers) and       *)
(* geometry optimisation (Molecule.optimise, SolvatedMolecule.optimise).   *)
(*                                                                         *)
(* Optional Python values are modelled as sets: None is {} and a value x   *)
(* is {x}.  A geometry (list of atoms) is a sequence of integer            *)
(* coordinates, one per atom.                                              *)
(***************************************************************************)
EXTENDS Integers, Sequences, FiniteSets, TLC

\* ---------------------------------------------------------------- bounds
\* largest number of atoms of a molecule
MaxAtoms == 2
\* atom coordinates are 0..MaxCoord
MaxCoord == 2
\* largest n_rdkit_confs / n_siman_confs passed to _generate_conformers
MaxConfs == 3

\* ------------------------------------------------------- optional values
None == {}

Some(x) == {x}

Val(o) == CHOOSE x \in o : TRUE

\* ------------------------------------------------------------ geometries
Coord == 0..MaxCoord

\* the geometry of n atoms in conformation c
Geom(n, c) == [i \in 1..n |-> c]

\* ---------------------------------------------------------- the molecule
VARIABLES
    pc,          \* position of the caller / of the running method
    cls,         \* "Molecule" or "SolvatedMolecule"
    name,        \* Species.name
    smiles,      \* Molecule.smiles (optional sequence of element symbols)
    atoms,       \* Species.atoms (optional geometry)
    charge,      \* Species.charge
    mult,        \* Species.mult
    solvent,     \* Species.solvent (optional)
    energy,      \* Species.energy (optional)
    graph,       \* Species.graph: node i -> its 'charge' attribute (optional)
    rdkit_mol_obj,           \* optional embeddable representation
    rdkit_conf_gen_is_fine,  \* capability flag
    conformers,  \* optional list of Conformer
    qm_solvent_atoms,        \* SolvatedMolecule only (optional)
    mm_solvent_atoms,        \* SolvatedMolecule only (optional)
    init_path,   \* which initialiser __init__ dispatched to
    method,      \* the method in progress or just ended
    args,        \* <<n_rdkit_confs, n_siman_confs>> of the call in progress
    results,     \* the AsyncResult of each annealing job, by ordinal
    finished,    \* the annealing jobs that have ended, in the order they ended
    conf_atoms_list,         \* local of _generate_conformers
    opt,         \* local of optimise: what the Calculation has given so far
    qmmm,        \* local of SolvatedMolecule.optimise: what line 139 has bound
    pre,         \* the object's fields when optimise was called, or whether
                 \* it had conformers when _generate_conformers was called
    history,     \* the collaborators the call invoked, each with its arguments
    raised       \* optional: what raised the exception that ended the call

locals == <<method, args, results, finished, conf_atoms_list, opt, qmmm, pre,
           history, raised>>

\* the fields of the molecule object
fields == <<name, smiles, atoms, charge, mult, solvent, energy, graph,
            rdkit_mol_obj, rdkit_conf_gen_is_fine, conformers,
            qm_solvent_atoms, mm_solvent_atoms>>

vars == <<pc, cls, fields, init_path, locals>>

\* Species.n_atoms
n_atoms == IF atoms = None THEN 0 ELSE Len(Val(atoms))

\* autode.atoms.metals (two of them)
metals == {"Fe", "Pd"}

\* the notations given to the constructor: absent, "", organic, with a metal
SmilesInputs == {None, Some(<<>>), Some(<<"C", "O">>), Some(<<"Fe", "+", "C">>)}

\* the atoms given to the constructor: absent, [], or a geometry
AtomsInputs == {None} \cup {Some(Geom(n, 0)) : n \in 0..MaxAtoms}

\* (charge, mult, solvent_name) given to the constructor of class c
CtorExtras(c) ==
    IF c = "SolvatedMolecule" THEN {<<1, 2, Some("water")>>}
    ELSE {<<0, 1, None>>}

\* the charge an initialiser reads off a notation: its "+" symbols
smiles_charge(s) == Cardinality({i \in 1..Len(s) : s[i] = "+"})

\* the multiplicity an initialiser gives it: a doublet for an odd charge
smiles_mult(s) == 1 + (smiles_charge(s) % 2)

NoCalc == [output |-> None, energy |-> None, atoms |-> None, charges |-> None]

NoLocals ==
    /\ method' = "none"
    /\ args' = <<0, 0>>
    /\ results' = <<>>
    /\ finished' = <<>>
    /\ conf_atoms_list' = <<>>
    /\ opt' = NoCalc
    /\ qmmm' = None
    /\ pre' = <<>>
    /\ history' = <<>>
    /\ raised' = None

Init ==
    /\ pc = "new"
    /\ cls = "Molecule"
    /\ name = "water"
    /\ smiles = None
    /\ atoms = None
    /\ charge = 0
    /\ mult = 1
    /\ solvent = None
    /\ energy = None
    /\ graph = None
    /\ rdkit_mol_obj = None
    /\ rdkit_conf_gen_is_fine = TRUE
    /\ conformers = None
    /\ qm_solvent_atoms = None
    /\ mm_solvent_atoms = None
    /\ init_path = "none"
    /\ method = "none"
    /\ args = <<0, 0>>
    /\ results = <<>>
    /\ finished = <<>>
    /\ conf_atoms_list = <<>>
    /\ opt = NoCalc
    /\ qmmm = None
    /\ pre = <<>>
    /\ history = <<>>
    /\ raised = None

\* bool(smiles) in Python: neither None nor the empty string
Truthy(s) == s # None /\ Len(Val(s)) > 0

\* any(metal in smiles for metal in metals)
has_metal(s) == \E i \in 1..Len(s) : s[i] \in metals

\* Molecule._init_smiles: which initialiser the notation is dispatched to
init_smiles_path(s) ==
    IF has_metal(s) THEN "init_smiles" ELSE "init_organic_smiles"

\* the graph of a molecule of n atoms, no node carrying a charge yet
make_graph(n) == Some([i \in 1..n |-> None])

\* mutant: only an empty list counts as no atoms
no_atoms_check_len(a) == a # None /\ Len(Val(a)) = 0

\* the test that ends __init__: raise NoAtomsInMolecule
no_atoms_check(a) == (IF a = None THEN 0 ELSE Len(Val(a))) = 0

\* Molecule.__init__ (and SolvatedMolecule.__init__ after it)
Construct ==
    /\ pc = "new"
    /\ \E c \in {"Molecule", "SolvatedMolecule"}, s \in SmilesInputs,
          a \in AtomsInputs :
       \E x \in CtorExtras(c) :
        /\ cls' = c
        /\ name' = "water"
        /\ smiles' = s
        /\ solvent' = x[3]
        /\ energy' = None
        /\ conformers' = None
        /\ qm_solvent_atoms' = None
        /\ mm_solvent_atoms' = None
        /\ IF Truthy(s)
           THEN \* the initialiser populates atoms, graph, charge and mult
                \E n \in 0..MaxAtoms, fine \in BOOLEAN :
                    /\ init_path' = init_smiles_path(Val(s))
                    /\ atoms' = Some(Geom(n, 0))
                    /\ graph' = make_graph(n)
                    /\ charge' = smiles_charge(Val(s))
                    /\ mult' = smiles_mult(Val(s))
                    /\ rdkit_mol_obj' = Some("RDKitMol")
                    /\ rdkit_conf_gen_is_fine' = fine
           ELSE /\ init_path' = "make_graph"
                /\ atoms' = a
                /\ graph' = make_graph(IF a = None THEN 0 ELSE Len(Val(a)))
                /\ charge' = x[1]
                /\ mult' = x[2]
                /\ rdkit_mol_obj' = None
                /\ rdkit_conf_gen_is_fine' = TRUE
        /\ pc' = IF no_atoms_check(atoms') THEN "NoAtomsInMolecule" ELSE "idle"
    /\ UNCHANGED locals

\* ------------------------------------------------------ calling a method
\* mutant: _generate_conformers is left undecorated
Decorated_but_generate == {"optimise", "SolvatedMolecule.optimise"}

\* the methods that carry the @requires_atoms() decorator
Decorated == {"_generate_conformers", "optimise", "SolvatedMolecule.optimise"}

\* autode.utils.requires_atoms: the wrapped method runs only with atoms
requires_atoms == n_atoms > 0

\* may the body of method m run now?
may_enter(m) == m \in Decorated => requires_atoms

\* the call ends with an exception raised by `who`
Raise(who) ==
    /\ pc' = "raised"
    /\ raised' = Some(who)

\* ----------------------------------------------------- _generate_conformers
\* squared displacement between two geometries of the same molecule
sum_sq_disp(a, b) ==
    LET d(i) == (a[i] - b[i]) * (a[i] - b[i])
        sum[i \in 0..Len(a)] == IF i = 0 THEN 0 ELSE sum[i - 1] + d(i)
    IN sum[Len(a)]

\* the uniqueness threshold: the square of the RMSD tolerance
RmsdTolSq == 2

\* RMSD(a, b) < tolerance, without the square root
within_threshold(a, b) == sum_sq_disp(a, b) < RmsdTolSq * Len(a)

\* conf_is_unique_rmsd(conf, conf_list)
conf_is_unique_rmsd(conf, conf_list) ==
    \A j \in 1..Len(conf_list) :
        ~within_threshold(conf.atoms, conf_list[j].atoms)

\* f'{self.name}_conf{i}'
conf_name(i) == <<name, "_conf", i>>

\* Conformer(name=..., charge=self.charge, mult=self.mult, atoms=atoms)
Conformer(i, a) ==
    [name |-> conf_name(i), charge |-> charge, mult |-> mult, atoms |-> a,
     solvent |-> None]

\* mutant: every candidate is kept
RECURSIVE unique_confs_all(_, _, _)
unique_confs_all(list, i, acc) ==
    IF i >= Len(list) THEN acc
    ELSE unique_confs_all(list, i + 1,
            Append(acc, [Conformer(i, list[i + 1]) EXCEPT !.solvent = solvent]))

\* mutant: a conformer is numbered by the conformers kept before it
RECURSIVE unique_confs_renumbered(_, _, _)
unique_confs_renumbered(list, i, acc) ==
    IF i >= Len(list) THEN acc
    ELSE LET conf == Conformer(Len(acc), list[i + 1])
         IN IF conf_is_unique_rmsd(conf, acc)
            THEN unique_confs_renumbered(list, i + 1,
                              Append(acc, [conf EXCEPT !.solvent = solvent]))
            ELSE unique_confs_renumbered(list, i + 1, acc)

\* mutant: a candidate is compared with the last conformer kept only
RECURSIVE unique_confs_vs_last(_, _, _)
unique_confs_vs_last(list, i, acc) ==
    IF i >= Len(list) THEN acc
    ELSE LET conf == Conformer(i, list[i + 1])
             last == IF acc = <<>> THEN <<>> ELSE <<acc[Len(acc)]>>
         IN IF conf_is_unique_rmsd(conf, last)
            THEN unique_confs_vs_last(list, i + 1,
                              Append(acc, [conf EXCEPT !.solvent = solvent]))
            ELSE unique_confs_vs_last(list, i + 1, acc)

\* the loop over enumerate(conf_atoms_list), from its i-th round (i from 0)
RECURSIVE unique_confs(_, _, _)
unique_confs(list, i, acc) ==
    IF i >= Len(list) THEN acc
    ELSE LET conf == Conformer(i, list[i + 1])
         IN IF conf_is_unique_rmsd(conf, acc)
            THEN unique_confs(list, i + 1,
                              Append(acc, [conf EXCEPT !.solvent = solvent]))
            ELSE unique_confs(list, i + 1, acc)

\* mutant: the capability flag is not consulted
use_rdkit_whenever_smiles == smiles # None

\* which strategy the call selects
use_rdkit == smiles # None /\ rdkit_conf_gen_is_fine

Pending == [state |-> "pending", atoms |-> <<>>]

\* the (n_rdkit_confs, n_siman_confs) the method is called with
ArgPairs ==
    {p \in (0..MaxConfs) \X (0..MaxConfs) :
        p[1] + p[2] = MaxConfs \/ p = <<MaxConfs, MaxConfs>>}

\* mutant: conformers that the molecule has are kept
no_conformers_unless_some ==
    IF conformers = None THEN Some(<<>>) ELSE conformers

\* self.conformers = []
no_conformers == Some(<<>>)

\* the call of _generate_conformers up to the first blocking collaborator:
\* the decorator, self.conformers = [], and either the embedding about to
\* run or the n_siman_confs annealing jobs submitted to the pool
CallGenerate ==
    /\ pc = "idle"
    /\ method' = "_generate_conformers"
    /\ pre' = <<conformers \notin {None, Some(<<>>)}>>
    /\ opt' = NoCalc
    /\ qmmm' = None
    /\ conf_atoms_list' = <<>>
    /\ finished' = <<>>
    /\ \E a \in ArgPairs :
        /\ args' = a
        /\ IF ~may_enter("_generate_conformers")
           THEN /\ Raise("requires_atoms")
                /\ history' = <<>>
                /\ results' = <<>>
                /\ UNCHANGED conformers
           ELSE /\ conformers' = no_conformers
                /\ raised' = None
                /\ IF use_rdkit
                   THEN /\ pc' = "embed"
                        /\ results' = <<>>
                        /\ history' = <<>>
                   ELSE /\ pc' = "pool"
                        /\ results' = [i \in 1..a[2] |-> Pending]
                        /\ history' = << <<"Pool">> >>
    /\ UNCHANGED <<cls, name, smiles, atoms, charge, mult, solvent, energy,
                   graph, rdkit_mol_obj, rdkit_conf_gen_is_fine,
                   qm_solvent_atoms, mm_solvent_atoms, init_path>>

\* AllChem.EmbedMultipleConfs and get_atoms_from_rdkit_mol_object
Embed ==
    /\ pc = "embed"
    /\ history' = Append(history, <<"EmbedMultipleConfs">>)
    /\ \/ /\ Raise("EmbedMultipleConfs")
          /\ UNCHANGED conf_atoms_list
       \/ /\ rdkit_mol_obj # None
          /\ \E k \in 0..args[1] : \E l \in [1..k -> Coord] :
                conf_atoms_list' = [i \in 1..k |-> Geom(n_atoms, l[i])]
          /\ pc' = "filter"
          /\ UNCHANGED raised
    /\ UNCHANGED <<cls, fields, init_path, method, args, results, finished,
                   opt, qmmm, pre>>

\* a worker of the pool ends get_simanl_atoms(self, None, i): job i + 1 of
\* results has ordinal i
WorkerDone(j) ==
    /\ pc = "pool"
    /\ results[j].state = "pending"
    /\ \/ \E c \in Coord :
            results' = [results EXCEPT
                            ![j] = [state |-> "ok", atoms |-> Geom(n_atoms, c)]]
       \/ results' = [results EXCEPT ![j] = [state |-> "error", atoms |-> <<>>]]
    /\ finished' = Append(finished, j)
    /\ UNCHANGED <<pc, cls, fields, init_path, method, args,
                   conf_atoms_list, opt, qmmm, pre, history, raised>>

\* mutant: the results are taken from the last job to the first
next_result_reversed(k) == Len(results) - k

\* mutant: the results are taken in the order in which the jobs ended
next_result_as_completed(k) ==
    IF k < Len(finished) THEN finished[k + 1] ELSE k + 1

\* the result the list comprehension waits for after k results
next_result(k) == k + 1

\* mutant: a failed job is taken as one that left the atoms as they were
async_get_swallow(res) ==
    [raises |-> FALSE,
     value |-> IF res.state = "error" THEN Val(atoms) ELSE res.atoms]

\* res.get(timeout=None) of a job that has ended: its value, or its exception
async_get(res) == [raises |-> res.state = "error", value |-> res.atoms]

\* one res.get(timeout=None) of the list comprehension
Collect ==
    /\ pc = "pool"
    /\ Len(conf_atoms_list) < Len(results)
    /\ LET res == results[next_result(Len(conf_atoms_list))]
       IN /\ res.state # "pending"
          /\ IF async_get(res).raises
             THEN /\ Raise("get_simanl_atoms")
                  /\ UNCHANGED conf_atoms_list
             ELSE /\ conf_atoms_list' =
                        Append(conf_atoms_list, async_get(res).value)
                  /\ UNCHANGED <<pc, raised>>
    /\ UNCHANGED <<cls, fields, init_path, method, args, results, finished,
                   opt, qmmm, pre, history>>

\* the list comprehension is complete and the pool is closed
Collected ==
    /\ pc = "pool"
    /\ Len(conf_atoms_list) = Len(results)
    /\ pc' = "filter"
    /\ UNCHANGED <<cls, fields, init_path, locals>>

\* mutant: the molecule also takes the atoms of the first conformer kept
Filter_takes_first ==
    LET kept == unique_confs(conf_atoms_list, 0, Val(conformers))
    IN /\ pc = "filter"
       /\ conformers' = Some(kept)
       /\ atoms' = IF kept = <<>> THEN atoms ELSE Some(kept[1].atoms)
       /\ pc' = "returned"
       /\ UNCHANGED <<cls, name, smiles, charge, mult, solvent, energy,
                      graph, rdkit_mol_obj, rdkit_conf_gen_is_fine,
                      qm_solvent_atoms, mm_solvent_atoms, init_path, locals>>

\* the loop that keeps the unique conformers, and the return
Filter ==
    /\ pc = "filter"
    /\ conformers' = Some(unique_confs(conf_atoms_list, 0, Val(conformers)))
    /\ pc' = "returned"
    /\ UNCHANGED <<cls, name, smiles, atoms, charge, mult, solvent, energy,
                   graph, rdkit_mol_obj, rdkit_conf_gen_is_fine,
                   qm_solvent_atoms, mm_solvent_atoms, init_path, locals>>

\* ------------------------------------------------------------- optimise
\* the energy of the output of a run that converged to conformation c
engine_energy(c) == c + 1

\* the geometry of k atoms in the output of that run
engine_atoms(k, c) == Geom(k, c)

\* the k partial charges in the output: atom i (from 1) carries charge i
engine_charges(k) == [i \in 1..k |-> i]

\* the method whose body runs for an object of class c
optimise_of(c) ==
    IF c = "SolvatedMolecule" THEN "SolvatedMolecule.optimise" ELSE "optimise"

\* Species.set_atoms: the atoms are replaced as a whole
set_atoms(a) == Some(a)

\* the call of optimise up to opt.run(): the decorator and the Calculation
CallOptimise ==
    /\ pc = "idle"
    /\ method' = optimise_of(cls)
    /\ pre' = fields
    /\ opt' = NoCalc
    /\ qmmm' = None
    /\ IF ~may_enter(optimise_of(cls))
       THEN /\ Raise("requires_atoms")
            /\ history' = <<>>
       ELSE /\ pc' = "opt.run"
            /\ raised' = None
            /\ history' = << <<"Calculation">> >>
    /\ UNCHANGED <<cls, fields, init_path, args, results, finished, conf_atoms_list>>

\* opt.run()
OptRun ==
    /\ pc = "opt.run"
    /\ history' = Append(history, <<"run">>)
    /\ \/ /\ Raise("run")
          /\ UNCHANGED opt
       \/ \E c \in Coord :
          /\ opt' = [opt EXCEPT !.output = Some(c)]
          /\ pc' = "opt.get_energy"
          /\ UNCHANGED raised
    /\ UNCHANGED <<cls, fields, init_path, method, args, results, finished,
                   conf_atoms_list, qmmm, pre>>

\* mutant: the energy is kept when the molecule already has one
assign_energy_if_none(e) == IF energy = None THEN Some(e) ELSE energy

\* self.energy = <the value e that opt.get_energy() returned>
assign_energy(e) == Some(e)

\* self.energy = opt.get_energy()
OptEnergy ==
    /\ pc = "opt.get_energy"
    /\ history' = Append(history, <<"get_energy">>)
    /\ \/ /\ Raise("get_energy")
          /\ UNCHANGED <<energy, opt>>
       \/ LET e == engine_energy(Val(opt.output))
          IN /\ opt' = [opt EXCEPT !.energy = Some(e)]
             /\ energy' = assign_energy(e)
             /\ pc' = "opt.get_final_atoms"
             /\ UNCHANGED raised
    /\ UNCHANGED <<cls, name, smiles, atoms, charge, mult, solvent, graph,
                   rdkit_mol_obj, rdkit_conf_gen_is_fine, conformers,
                   qm_solvent_atoms, mm_solvent_atoms, init_path, method,
                   args, results, finished, conf_atoms_list, qmmm, pre>>

\* self.set_atoms(atoms=opt.get_final_atoms()); the engine's output lists
\* the atoms of the molecule, or none at all
OptAtoms ==
    /\ pc = "opt.get_final_atoms"
    /\ history' = Append(history, <<"get_final_atoms">>)
    /\ \/ /\ Raise("get_final_atoms")
          /\ UNCHANGED <<atoms, opt>>
       \/ \E k \in {0, n_atoms} :
          LET a == engine_atoms(k, Val(opt.output))
          IN /\ opt' = [opt EXCEPT !.atoms = Some(a)]
             /\ atoms' = set_atoms(a)
             /\ pc' = "print_xyz_file"
             /\ UNCHANGED raised
    /\ UNCHANGED <<cls, name, smiles, charge, mult, solvent, energy, graph,
                   rdkit_mol_obj, rdkit_conf_gen_is_fine, conformers,
                   qm_solvent_atoms, mm_solvent_atoms, init_path, method,
                   args, results, finished, conf_atoms_list, qmmm, pre>>

\* mutant: the file is named after the molecule only
xyz_filename_without_method == <<name, "_optimised", ".xyz">>

\* f'{self.name}_optimised_{method.name}.xyz'
xyz_filename == <<name, "_optimised_", "method.name", ".xyz">>

\* mutant: the charges are not extracted
after_xyz_no_charges(m) ==
    IF m = "SolvatedMolecule.optimise" THEN "do_explicit_solvent_qmmm"
    ELSE "returned"

\* what follows print_xyz_file in method m
after_xyz(m) ==
    IF m = "SolvatedMolecule.optimise" THEN "opt.get_atomic_charges"
    ELSE "returned"

\* self.print_xyz_file(filename=...), and the return of Molecule.optimise
OptXyz ==
    /\ pc = "print_xyz_file"
    /\ history' = Append(history, <<"print_xyz_file", xyz_filename>>)
    /\ \/ Raise("print_xyz_file")
       \/ /\ pc' = after_xyz(method)
          /\ UNCHANGED raised
    /\ UNCHANGED <<cls, fields, init_path, method, args, results, finished,
                   conf_atoms_list, opt, qmmm, pre>>

\* the graph after the loop over enumerate(charges) has written what it can
write_charges(g, ch) ==
    [i \in 1..Len(g) |-> IF i <= Len(ch) THEN Some(ch[i]) ELSE g[i]]

\* for i, charge in enumerate(opt.get_atomic_charges()):
\*     self.graph.nodes[i]['charge'] = charge
\* graph.nodes[i] raises KeyError for an i that is no node
OptCharges ==
    /\ pc = "opt.get_atomic_charges"
    /\ history' = Append(history, <<"get_atomic_charges">>)
    /\ \/ /\ Raise("get_atomic_charges")
          /\ UNCHANGED <<graph, opt>>
       \/ \E k \in 0..MaxAtoms + 1 :
          LET ch == engine_charges(k)
          IN /\ opt' = [opt EXCEPT !.charges = Some(ch)]
             /\ graph' = Some(write_charges(Val(graph), ch))
             /\ IF Len(ch) > Len(Val(graph))
                THEN Raise("KeyError")
                ELSE /\ pc' = "do_explicit_solvent_qmmm"
                     /\ UNCHANGED raised
    /\ UNCHANGED <<cls, name, smiles, atoms, charge, mult, solvent, energy,
                   rdkit_mol_obj, rdkit_conf_gen_is_fine, conformers,
                   qm_solvent_atoms, mm_solvent_atoms, init_path, method,
                   args, results, finished, conf_atoms_list, qmmm, pre>>

\* what do_explicit_solvent_qmmm(self, self.solvent_mol, method, n_confs=96)
\* gives to line 139: nothing when it raises, or the tuple of the solvated
\* configuration c in which the sub-search ended
QmmmOutcomes == {None} \cup {Some(c) : c \in Coord}

\* mutant: the solvent atoms of the QM region are stored before the
\* sub-search has ended
qm_solvent_atoms_stored_first(r) ==
    Some(Geom(1, IF r = None THEN 0 ELSE Val(r)))

\* self.qm_solvent_atoms after lines 139-141 for the outcome r
qm_solvent_atoms_after(r) ==
    IF r = None THEN qm_solvent_atoms ELSE Some(Geom(1, Val(r)))

\* mutant: solvent atoms of the MM region that an earlier call left are kept
mm_solvent_atoms_if_none(r) ==
    IF r = None \/ mm_solvent_atoms # None THEN mm_solvent_atoms
    ELSE Some(Geom(2, Val(r)))

\* self.mm_solvent_atoms after lines 139-142 for the outcome r
mm_solvent_atoms_after(r) ==
    IF r = None THEN mm_solvent_atoms ELSE Some(Geom(2, Val(r)))

\* the sub-search and the three assignments after it
OptSolvent ==
    /\ pc = "do_explicit_solvent_qmmm"
    /\ \E r \in QmmmOutcomes :
        /\ qmmm' = r
        /\ qm_solvent_atoms' = qm_solvent_atoms_after(r)
        /\ mm_solvent_atoms' = mm_solvent_atoms_after(r)
        /\ IF r = None
           THEN /\ Raise("do_explicit_solvent_qmmm")
                /\ history' = Append(history, <<"do_explicit_solvent_qmmm">>)
                /\ UNCHANGED atoms
           ELSE /\ atoms' = set_atoms(Geom(n_atoms, Val(r)))
                /\ history' = history \o << <<"do_explicit_solvent_qmmm">>,
                                            <<"solvent_atoms">> >>
                /\ pc' = "returned"
                /\ UNCHANGED raised
    /\ UNCHANGED <<cls, name, smiles, charge, mult, solvent, energy, graph,
                   rdkit_mol_obj, rdkit_conf_gen_is_fine, conformers,
                   init_path, method, args, results, finished, conf_atoms_list,
                   opt, pre>>

\* the caller takes the result or the exception
Return ==
    /\ pc \in {"returned", "raised"}
    /\ pc' = "idle"
    /\ NoLocals
    /\ UNCHANGED <<cls, fields, init_path>>

Next ==
    \/ Construct
    \/ CallGenerate
    \/ Embed
    \/ \E j \in DOMAIN results : WorkerDone(j)
    \/ Collect
    \/ Collected
    \/ Filter
    \/ CallOptimise
    \/ OptRun
    \/ OptEnergy
    \/ OptAtoms
    \/ OptXyz
    \/ OptCharges
    \/ OptSolvent
    \/ Return

Spec == Init /\ [][Next]_vars

\* a caller that constructs a molecule and generates its conformers
NextGen ==
    \/ Construct
    \/ CallGenerate
    \/ Embed
    \/ \E j \in DOMAIN results : WorkerDone(j)
    \/ Collect
    \/ Collected
    \/ Filter
    \/ Return

SpecGen == Init /\ [][NextGen]_vars

\* a caller that constructs a molecule and optimises it
NextOpt ==
    \/ Construct
    \/ CallOptimise
    \/ OptRun
    \/ OptEnergy
    \/ OptAtoms
    \/ OptXyz
    \/ OptCharges
    \/ OptSolvent
    \/ Return

SpecOpt == Init /\ [][NextOpt]_vars

\* --------------------------------------------------------------- history
\* the object's fields when the call of optimise in progress was made
pre_atoms == pre[3]

pre_energy == pre[7]

pre_qm_solvent_atoms == pre[12]

pre_mm_solvent_atoms == pre[13]

\* the molecule had conformers when _generate_conformers was called
pre_had_conformers == pre[1]

\* a call of _generate_conformers is in progress or has just ended
in_generate == method = "_generate_conformers"

\* a call of either optimise is in progress or has just ended
in_optimise == method \in {"optimise", "SolvatedMolecule.optimise"}

\* the call in progress chose the annealing pool
annealing == in_generate /\ history # <<>> /\ history[1] = <<"Pool">>

\* the number in the name of the j-th conformer
conf_index(j) == Val(conformers)[j].name[3]

\* the atoms the jobs returned, in the order of their ordinals
by_ordinal == [i \in 1..Len(results) |-> results[i].atoms]

\* the atoms the jobs returned, in the order in which the jobs ended
as_completed == [i \in 1..Len(finished) |-> results[finished[i]].atoms]

\* the atoms of the conformers of a list, in the order of the list
atoms_of(confs) == [j \in 1..Len(confs) |-> confs[j].atoms]

\* the positions (from 0) in conf_atoms_list of the candidates kept
kept_positions == {conf_index(j) : j \in 1..Len(Val(conformers))}

\* the call in progress has invoked the collaborator what
invoked(what) == \E i \in 1..Len(history) : history[i] = <<what>>

\* the places in the record of the call where the file writer was invoked
writer_calls ==
    {i \in 1..Len(history) : history[i][1] = "print_xyz_file"}

\* ------------------------------------------------------------------ claims

\* C1: after _generate_conformers, no two distinct conformers of
\* self.conformers are within the uniqueness threshold of each other.
C1_ConformersPairwiseUnique ==
    conformers # None =>
        \A i, j \in 1..Len(Val(conformers)) :
            i # j => ~within_threshold(Val(conformers)[i].atoms,
                                       Val(conformers)[j].atoms)

\* a call has returned several conformers after rejecting a candidate
C1_Witness ==
    /\ pc = "returned"
    /\ in_generate
    /\ Len(Val(conformers)) >= 2
    /\ Len(Val(conformers)) < Len(conf_atoms_list)

\* C2: when optimise fails in opt.run(), get_energy() or get_final_atoms(),
\* the atoms and the energy are both what they were before the call.
C2_FailureLeavesAtomsAndEnergy ==
    (/\ pc = "raised"
     /\ in_optimise
     /\ raised \in {Some("run"), Some("get_energy"), Some("get_final_atoms")})
    => (atoms = pre_atoms /\ energy = pre_energy)

\* C3: after Molecule.optimise returns, the energy is the energy the engine
\* gave in this call and the atoms are the geometry it gave, as a whole.
C3_SuccessTakesEngineValues ==
    (pc = "returned" /\ method = "optimise")
    => /\ opt.energy # None
       /\ opt.atoms # None
       /\ energy = opt.energy
       /\ atoms = opt.atoms

\* Molecule.optimise has returned and replaced an earlier energy and geometry
C3_Witness ==
    /\ pc = "returned"
    /\ method = "optimise"
    /\ pre_energy # None
    /\ energy # pre_energy
    /\ atoms # pre_atoms
    /\ n_atoms > 0

\* C4 as stated: the k conformers are named conf0 .. conf(k-1) in order,
\* wherever the rejected candidates are in the list.
C4_NamesAreContiguous ==
    (pc = "returned" /\ in_generate)
    => \A j \in 1..Len(Val(conformers)) :
           Val(conformers)[j].name = conf_name(j - 1)

\* C4 amended: a conformer is named <name>_conf<i> with i the position (from
\* 0) of its geometry in the candidate list; the numbers increase in
\* first-seen order, and every position that names no conformer holds a
\* candidate within the threshold of a conformer with a smaller number.
C4_NamesAreCandidatePositions ==
    (pc = "returned" /\ in_generate)
    => LET confs == Val(conformers)
           taken == {conf_index(j) : j \in 1..Len(confs)}
       IN /\ \A j \in 1..Len(confs) :
                /\ confs[j].name = conf_name(conf_index(j))
                /\ conf_index(j) \in 0..Len(conf_atoms_list) - 1
                /\ confs[j].atoms = conf_atoms_list[conf_index(j) + 1]
                /\ \A h \in 1..j - 1 : conf_index(h) < conf_index(j)
          /\ \A i \in (0..Len(conf_atoms_list) - 1) \ taken :
                \E j \in 1..Len(confs) :
                    /\ conf_index(j) < i
                    /\ within_threshold(conf_atoms_list[i + 1], confs[j].atoms)

\* a conformer was accepted after a rejected candidate: its number is not
\* its place among the conformers
C4_Witness ==
    /\ pc = "returned"
    /\ in_generate
    /\ \E j \in 1..Len(Val(conformers)) : conf_index(j) # j - 1

\* the stages of SolvatedMolecule.optimise before the solvent atoms are set
StagesBeforeSolvent ==
    << <<"Calculation">>, <<"run">>, <<"get_energy">>, <<"get_final_atoms">>,
       <<"print_xyz_file", xyz_filename>>, <<"get_atomic_charges">>,
       <<"do_explicit_solvent_qmmm">> >>

\* the solvent-atom fields were assigned in the call in progress
solvent_atoms_assigned ==
    \/ \E i \in 1..Len(history) : history[i] = <<"solvent_atoms">>
    \/ qm_solvent_atoms # pre_qm_solvent_atoms
    \/ mm_solvent_atoms # pre_mm_solvent_atoms

\* C5: in a call of SolvatedMolecule.optimise the solvent-atom fields are
\* assigned only after the engine run, both extractions, the file and the
\* writing of the charges on the graph have succeeded in this call; a call
\* that raised has assigned neither.
C5_SolventAtomsAfterVacuumAndCharges ==
    in_optimise =>
        /\ solvent_atoms_assigned =>
              /\ method = "SolvatedMolecule.optimise"
              /\ SubSeq(history, 1, 7) = StagesBeforeSolvent
              /\ raised = None
              /\ opt.energy # None /\ opt.atoms # None /\ opt.charges # None
              /\ \A i \in 1..Len(Val(opt.charges)) :
                    Val(graph)[i] = Some(Val(opt.charges)[i])
        /\ pc = "raised" => ~solvent_atoms_assigned

\* SolvatedMolecule.optimise has returned for the second time with new
\* solvent atoms
C5_Witness ==
    /\ pc = "returned"
    /\ method = "SolvatedMolecule.optimise"
    /\ pre_qm_solvent_atoms # None
    /\ qm_solvent_atoms # pre_qm_solvent_atoms
    /\ Len(Val(opt.charges)) > 0

\* C6: when the engine gives a number of charges that is not the number of
\* atoms, the call fails in the charge stage: it never goes on to the
\* solvent sub-search.
C6_ChargeCountMismatchIsFatal ==
    (/\ method = "SolvatedMolecule.optimise"
     /\ opt.charges # None
     /\ Len(Val(opt.charges)) # Len(Val(opt.atoms)))
    => (pc = "raised" /\ raised = Some("KeyError"))

\* C7: with the annealing pool and no failed worker, the candidate list has
\* n_siman_confs entries and entry i is the result of the job of ordinal i.
C7_CandidatesByOrdinal ==
    annealing =>
        /\ \A i \in 1..Len(conf_atoms_list) :
              /\ results[i].state = "ok"
              /\ conf_atoms_list[i] = results[i].atoms
        /\ pc \in {"filter", "returned"} =>
              /\ Len(results) = args[2]
              /\ Len(conf_atoms_list) = args[2]

\* all MaxConfs jobs were collected and they did not all give one geometry
C7_Witness ==
    /\ annealing
    /\ pc = "filter"
    /\ Len(conf_atoms_list) = MaxConfs
    /\ conf_atoms_list[1] # conf_atoms_list[MaxConfs]

\* C8: a call in which an annealing worker failed never reaches the filter
\* nor returns; when it ends, it ends with the worker's exception.
C8_WorkerFailureIsRaised ==
    (annealing /\ \E i \in 1..Len(results) : results[i].state = "error")
    => /\ pc \in {"pool", "raised"}
       /\ pc = "raised" => raised = Some("get_simanl_atoms")

\* the call raised for a worker that failed after earlier results were taken
\* and while another worker was still running
C8_Witness ==
    /\ annealing
    /\ pc = "raised"
    /\ Len(conf_atoms_list) >= 1
    /\ \E i \in 1..Len(results) : results[i].state = "pending"

\* C9: construction raises NoAtomsInMolecule exactly when it leaves no
\* atoms, and after that nothing can be done with the object.
C9_NoAtomsFailsConstruction ==
    [][/\ pc = "new" =>
            IF n_atoms' = 0 THEN pc' = "NoAtomsInMolecule" ELSE pc' = "idle"
       /\ pc # "NoAtomsInMolecule"]_vars

\* a notation whose initialiser gave no atoms: construction has failed
C9_Witness ==
    /\ pc = "NoAtomsInMolecule"
    /\ Truthy(smiles)
    /\ atoms = Some(<<>>)

\* C10: a call of _generate_conformers or optimise on a molecule without
\* atoms raises before a collaborator is invoked and before a field changes.
C10_NoAtomsFailsBeforeAnything ==
    [][(pc = "idle" /\ n_atoms = 0 /\ pc' # "idle")
       => /\ pc' = "raised"
          /\ raised' = Some("requires_atoms")
          /\ history' = <<>>
          /\ fields' = fields]_vars

\* _generate_conformers was called on a molecule that had lost its atoms
\* in an earlier optimise
C10_Witness ==
    /\ pc = "raised"
    /\ in_generate
    /\ n_atoms = 0
    /\ raised = Some("requires_atoms")

\* C11: whatever the order in which the annealing jobs end, the candidates
\* given to the filter are the jobs' atoms by ordinal, and so the conformers
\* kept are those the filter keeps of the atoms by ordinal: the order in
\* which the jobs ended has no part in them.
C11_PoolIndependentOfCompletionOrder ==
    (annealing /\ pc \in {"filter", "returned"})
    => /\ conf_atoms_list = by_ordinal
       /\ pc = "returned"
          => conformers = Some(unique_confs(by_ordinal, 0, <<>>))

\* the jobs ended out of the order of their ordinals, and filtering the
\* atoms in the order in which they ended would have kept other conformers
C11_Witness ==
    /\ pc = "returned"
    /\ annealing
    /\ raised = None
    /\ finished # <<>>
    /\ finished[1] # 1
    /\ atoms_of(unique_confs(as_completed, 0, <<>>)) # atoms_of(Val(conformers))

\* C12: when the sub-search for the explicit solvent raises, the call of
\* SolvatedMolecule.optimise has failed with both solvent fields as they
\* were at entry; and at no point of a call is one of the two fields
\* changed and the other not.
C12_SolventFieldsBothOrNeither ==
    /\ raised = Some("do_explicit_solvent_qmmm")
       => /\ pc = "raised"
          /\ qm_solvent_atoms = pre_qm_solvent_atoms
          /\ mm_solvent_atoms = pre_mm_solvent_atoms
    /\ method = "SolvatedMolecule.optimise"
       => (qm_solvent_atoms = pre_qm_solvent_atoms
           <=> mm_solvent_atoms = pre_mm_solvent_atoms)

\* the sub-search raised in a call on a molecule that had solvent atoms of
\* an earlier call, after the vacuum stage had replaced the atoms
C12_Witness ==
    /\ pc = "raised"
    /\ raised = Some("do_explicit_solvent_qmmm")
    /\ pre_qm_solvent_atoms # None
    /\ pre_mm_solvent_atoms # None
    /\ atoms # pre_atoms

\* the collaborators of a whole call of SolvatedMolecule.optimise, in order
SolvatedStages == StagesBeforeSolvent \o << <<"solvent_atoms">> >>

\* C13: a call of SolvatedMolecule.optimise that was let in, whatever calls
\* came before it, has gone through a prefix of the stages vacuum
\* optimisation, charge extraction, sub-search, solvent atoms, beginning with
\* the vacuum optimisation; when it returns it has gone through all of them
\* and both solvent fields hold what the sub-search of this call returned.
C13_StagesInOrderFromVacuum ==
    (method = "SolvatedMolecule.optimise" /\ raised # Some("requires_atoms"))
    => /\ history # <<>>
       /\ Len(history) <= Len(SolvatedStages)
       /\ history = SubSeq(SolvatedStages, 1, Len(history))
       /\ pc = "returned"
          => /\ history = SolvatedStages
             /\ qmmm # None
             /\ qm_solvent_atoms = Some(Geom(1, Val(qmmm)))
             /\ mm_solvent_atoms = Some(Geom(2, Val(qmmm)))

\* a call returned on a molecule that had the solvent atoms of an earlier
\* call, and its sub-search ended in another configuration
C13_Witness ==
    /\ pc = "returned"
    /\ method = "SolvatedMolecule.optimise"
    /\ pre_qm_solvent_atoms # None
    /\ qm_solvent_atoms # pre_qm_solvent_atoms
    /\ mm_solvent_atoms # pre_mm_solvent_atoms

\* C14: once the molecule is constructed no step of any call, returning or
\* raising, changes charge or mult; no step of _generate_conformers changes
\* atoms or energy; no step of optimise changes the conformers.
C14_FrameOfGenerateAndOptimise ==
    [][pc # "new"
       => /\ charge' = charge
          /\ mult' = mult
          /\ method' = "_generate_conformers"
             => (atoms' = atoms /\ energy' = energy)
          /\ method' \in {"optimise", "SolvatedMolecule.optimise"}
             => conformers' = conformers]_vars

\* an optimise has returned with other atoms on a molecule that had got
\* conformers from an earlier _generate_conformers
C14_Witness ==
    /\ pc = "returned"
    /\ in_optimise
    /\ conformers # None
    /\ Val(conformers) # <<>>
    /\ atoms # pre_atoms
    /\ energy # pre_energy

\* C15: after a _generate_conformers that returned, the conformers are the
\* greedy filter of the candidates in their order: candidate i is kept
\* exactly when no candidate kept before it is within the threshold of it,
\* the conformers are the kept candidates in candidate order, and the first
\* candidate, when there is one, is kept.
C15_PoolIsGreedyFilter ==
    (pc = "returned" /\ in_generate)
    => LET confs == Val(conformers)
           cand(i) == conf_atoms_list[i + 1]
       IN /\ kept_positions \subseteq 0..(Len(conf_atoms_list) - 1)
          /\ \A i \in 0..(Len(conf_atoms_list) - 1) :
                i \in kept_positions
                <=> \A k \in kept_positions :
                        k < i => ~within_threshold(cand(k), cand(i))
          /\ \A j \in 1..Len(confs) : confs[j].atoms = cand(conf_index(j))
          /\ \A j \in 1..Len(confs) : \A l \in 1..Len(confs) :
                j < l => conf_index(j) < conf_index(l)
          /\ conf_atoms_list # <<>> => 0 \in kept_positions

\* of three candidates the second was rejected against the first, and the
\* third was kept although the second is within the threshold of it
C15_Witness ==
    /\ pc = "returned"
    /\ in_generate
    /\ Len(conf_atoms_list) = 3
    /\ kept_positions = {0, 2}
    /\ within_threshold(conf_atoms_list[2], conf_atoms_list[3])

\* C16: a call of _generate_conformers that was let in uses the embedding
\* when the molecule has a notation and the capability flag is set, and the
\* annealing pool otherwise, never both; the number of candidates is bounded
\* by the attempts asked of the strategy used, and the annealing jobs
\* submitted are n_siman_confs, whatever the other number is.
C16_ExactlyOneStrategy ==
    (in_generate /\ raised # Some("requires_atoms"))
    => IF smiles # None /\ rdkit_conf_gen_is_fine
       THEN /\ ~invoked("Pool")
            /\ results = <<>>
            /\ pc # "embed" => invoked("EmbedMultipleConfs")
            /\ Len(conf_atoms_list) <= args[1]
       ELSE /\ invoked("Pool")
            /\ ~invoked("EmbedMultipleConfs")
            /\ Len(results) = args[2]
            /\ Len(conf_atoms_list) <= args[2]
            /\ pc \in {"filter", "returned"}
               => Len(conf_atoms_list) = args[2]

\* a molecule with a notation but without the capability ran the annealing
\* with no attempts, and got no candidate although embeddings were asked for
C16_Witness ==
    /\ pc = "returned"
    /\ in_generate
    /\ smiles # None
    /\ ~rdkit_conf_gen_is_fine
    /\ args = <<MaxConfs, 0>>
    /\ conf_atoms_list = <<>>

\* C17: in a call of Molecule.optimise the file writer is invoked at most
\* once, after the run and both extractions, when energy and atoms of the
\* molecule are those the engine gave, and with a file name made of the
\* molecule's name and the method's name; a call in which the run or an
\* extraction raised has not invoked it.
C17_WriterOnceAfterBothReplaced ==
    method = "optimise"
    => /\ Cardinality(writer_calls) <= 1
       /\ \A i \in writer_calls :
            /\ SubSeq(history, 1, i - 1) =
                  << <<"Calculation">>, <<"run">>, <<"get_energy">>,
                     <<"get_final_atoms">> >>
            /\ history[i][2] = <<name, "_optimised_", "method.name", ".xyz">>
            /\ opt.energy # None /\ energy = opt.energy
            /\ opt.atoms # None /\ atoms = opt.atoms
       /\ raised \in {Some("run"), Some("get_energy"), Some("get_final_atoms")}
          => writer_calls = {}
       /\ pc = "returned" => writer_calls # {}

\* the writer was invoked once, and it raised, after energy and atoms of the
\* molecule had been replaced
C17_Witness ==
    /\ method = "optimise"
    /\ pc = "raised"
    /\ raised = Some("print_xyz_file")
    /\ Cardinality(writer_calls) = 1
    /\ energy # pre_energy
    /\ atoms # pre_atoms

\* C18: _generate_conformers replaces the conformers: after a call that
\* returned they are the filter, from the empty list, of the candidates of
\* this call; after a call whose sampling raised they are the empty list,
\* whatever conformers the molecule had before.
C18_ConformersReplacedNotExtended ==
    (in_generate /\ raised # Some("requires_atoms"))
    => /\ pc = "returned"
          => conformers = Some(unique_confs(conf_atoms_list, 0, <<>>))
       /\ pc = "raised" => conformers = Some(<<>>)
       /\ pc \notin {"returned", "raised"} => conformers = Some(<<>>)

\* an annealing job failed in a call on a molecule that had conformers
C18_Witness ==
    /\ pc = "raised"
    /\ in_generate
    /\ raised = Some("get_simanl_atoms")
    /\ pre_had_conformers
    /\ conformers = Some(<<>>)

\* C19: whenever a call of _generate_conformers has selected the embedding,
\* the constructor had gone to one of the notation initialisers, not to
\* make_graph, and the molecule has the representation the embedding needs.
C19_EmbeddingOnlyAfterNotationInit ==
    (in_generate /\ (pc = "embed" \/ invoked("EmbedMultipleConfs")))
    => /\ init_path \in {"init_smiles", "init_organic_smiles"}
       /\ rdkit_mol_obj # None

\* C20: between calls of SolvatedMolecule.optimise, when the solvent fields
\* are set, the atoms are the species geometry of the sub-search that gave
\* the solvent fields.
C20_AtomsMatchSolventFields ==
    (pc = "idle" /\ cls = "SolvatedMolecule" /\ qm_solvent_atoms # None)
    => /\ mm_solvent_atoms = Some(Geom(2, Val(qm_solvent_atoms)[1]))
       /\ atoms = Some(Geom(n_atoms, Val(qm_solvent_atoms)[1]))
====
